---- MODULE Spec2Model ----
(***************************************************************************)
(* Model of broker/metrics.go: the queue metrics of the message broker.    *)
(* The registry holds the two metric vectors `adds` and `latency`; a       *)
(* metrics object (one per queue) holds references into them, a mutex and  *)
(* the sentTimes map.  Spec runs the calls one after another, each call a  *)
(* single action; SpecStress runs them in goroutines, one step for every   *)
(* statement that touches shared state, each item sent once and then       *)
(* received once; SpecFair lets fairly scheduled goroutines make any calls.*)
(* An event is a pointer (its identity, the map key) to a value whose      *)
(* Type() the switch of send reads.                                        *)
(* Time is an integer tick counter; an observation is a tick difference.   *)
(***************************************************************************)
EXTENDS Integers, Sequences, FiniteSets, TLC

\* ---- bounds of the model ----
NumThreads == 2
NumItems == 2
MaxClock == 1
MaxCalls == 3
MaxStarted == 2

\* ---- program constants ----
addLabel == "Add"
updateLabel == "Update"
deleteLabel == "Delete"

Added == "Added"
Modified == "Modified"
Deleted == "Deleted"
\* a value of evt.Type() that no case of the switch matches
Unknown == "Unknown"
EventTypes == {Added, Modified, Deleted, Unknown}

\* the nil *metrics
Nil == 0

\* ---- inputs ----
Threads == 1..NumThreads
\* queue names; they are interchangeable, the first queue made is called q1
Names == {"q1", "q2"}
\* event identities (the pointers the events are compared by)
Items == 1..NumItems
\* an event: its identity and what its Type() returns
Events == [id : Items, type : EventTypes]
NoEvent == [id |-> 0, type |-> Unknown]

VARIABLES
  adds,       \* CounterVec: <<name, type>> -> value, for the children created so far
  latency,    \* HistogramVec: name -> sequence of observed values
  heap,       \* the metrics objects constructed so far, by address 1..Len(heap)
  now,        \* the clock
  fault,      \* a nil dereference has crashed the process
  pc,         \* per goroutine: the statement it is about to execute
  m,          \* per goroutine: the receiver of the call in progress
  evt,        \* per goroutine: the argument of the call in progress
  work,       \* stress harness: per item, how far its single send/receive got
  calls,      \* history: number of constructions, sends, calls on nil and receives
              \* of items not sent since their last receive (bounds the run)
  sendLog,    \* history: per tracker and item, clock of each send since the last receive
  sendsDone,  \* history: per <<name, event type>>, number of send calls that returned
  settled,    \* history: the <<tracker, item>> whose latest send was followed by a receive
  order,      \* history: per tracker, how many sends have locked it (locks) and the
              \* latest timestamp stored with the turn of the send that stored it
              \* (stamp); per goroutine, the turn its send got at the lock (turn)
  account,    \* history: per tracker, the number of its sends, of its sends that found
              \* no entry for their item, and of the observations it reported
  last        \* history: the latest call on nil, receive of an item not sent since
              \* its last receive, or construction for a name that had traffic

vars == <<adds, latency, heap, now, fault, pc, m, evt, work, calls, sendLog,
          sendsDone, settled, account, order, last>>

\* ---- the prometheus primitives used by the code ----
\* mutant: every call makes a fresh child
WithLabelValuesFresh(vec, key, zero) ==
  IF key \in DOMAIN vec THEN [vec EXCEPT ![key] = zero] ELSE vec @@ (key :> zero)

\* vec.WithLabelValues(key): the child for key, created with value zero when new
WithLabelValues(vec, key, zero) ==
  IF key \in DOMAIN vec THEN vec ELSE vec @@ (key :> zero)

\* counter.Add(v)
CounterAdd(vec, key, v) == [vec EXCEPT ![key] = @ + v]

\* counter.Inc()
Inc(vec, key) == CounterAdd(vec, key, 1)

\* observer.Observe(v)
Observe(vec, key, v) == [vec EXCEPT ![key] = Append(@, v)]

\* mutant: the subtraction the wrong way round
SinceReversed(t) == t - now

\* time.Since(t), in ticks
Since(t) == now - t

\* the map after mp[key] = v
MapSet(mp, key, v) ==
  IF key \in DOMAIN mp THEN [mp EXCEPT ![key] = v] ELSE mp @@ (key :> v)

\* the map after delete(mp, key)
MapDelete(mp, key) == [k \in DOMAIN mp \ {key} |-> mp[k]]

\* ---- the bodies of newMetrics, send and receive ----
\* mutant: Inc() where the code has Add(0)
InitCountersInc(vec, name) ==
  LET a1 == Inc(WithLabelValues(vec, <<name, addLabel>>, 0), <<name, addLabel>>)
      a2 == Inc(WithLabelValues(a1, <<name, updateLabel>>, 0), <<name, updateLabel>>)
  IN Inc(WithLabelValues(a2, <<name, deleteLabel>>, 0), <<name, deleteLabel>>)

\* lines 74-79: the counter vector after newMetrics(name) initialised its counters
InitCounters(vec, name) ==
  LET a1 == CounterAdd(WithLabelValues(vec, <<name, addLabel>>, 0),
                       <<name, addLabel>>, 0)
      a2 == CounterAdd(WithLabelValues(a1, <<name, updateLabel>>, 0),
                       <<name, updateLabel>>, 0)
  IN CounterAdd(WithLabelValues(a2, <<name, deleteLabel>>, 0),
                <<name, deleteLabel>>, 0)

\* mutant: every tracker counts its adds on the counter of the first queue
MetricsSharedCounter(name) ==
  [Mutex |-> 0,
   addCounter |-> <<"q1", addLabel>>,
   updateCounter |-> <<name, updateLabel>>,
   deleteCounter |-> <<name, deleteLabel>>,
   latencyObserver |-> name,
   sentTimes |-> <<>>]

\* lines 82-89: the object newMetrics(name) returns
Metrics(name) ==
  [Mutex |-> 0,
   addCounter |-> <<name, addLabel>>,
   updateCounter |-> <<name, updateLabel>>,
   deleteCounter |-> <<name, deleteLabel>>,
   latencyObserver |-> name,
   sentTimes |-> <<>>]

\* mutant: the nil check left out
IsNilNever(mt) == FALSE

\* if m == nil
IsNil(mt) == mt = Nil

\* mutant: the Modified case increments the delete counter
SwitchMixedUp(vec, mt, ty) ==
  CASE ty = Added -> Inc(vec, mt.addCounter)
    [] ty = Modified -> Inc(vec, mt.deleteCounter)
    [] ty = Deleted -> Inc(vec, mt.deleteCounter)
    [] OTHER -> vec

\* mutant: a default case that counts unknown types as adds
SwitchCatchAll(vec, mt, ty) ==
  CASE ty = Modified -> Inc(vec, mt.updateCounter)
    [] ty = Deleted -> Inc(vec, mt.deleteCounter)
    [] OTHER -> Inc(vec, mt.addCounter)

\* lines 100-107: the counter vector after the switch ran for event type ty
Switch(vec, mt, ty) ==
  CASE ty = Added -> Inc(vec, mt.addCounter)
    [] ty = Modified -> Inc(vec, mt.updateCounter)
    [] ty = Deleted -> Inc(vec, mt.deleteCounter)
    [] OTHER -> vec

\* mutant: a clock that runs backwards
StampBackwards(sentTimes, e) ==
  IF e \in DOMAIN sentTimes THEN sentTimes ELSE MapSet(sentTimes, e, 0 - now)

\* mutant: no send stamps
StampNever(sentTimes, e) == sentTimes

\* mutant: every send stamps
StampAlways(sentTimes, e) == MapSet(sentTimes, e, now)

\* mutant: the condition inverted
StampIfPresent(sentTimes, e) ==
  IF e \in DOMAIN sentTimes THEN MapSet(sentTimes, e, now) ELSE sentTimes

\* lines 109-111: the table after send looked e up and stamped it when absent
Stamp(sentTimes, e) ==
  IF e \in DOMAIN sentTimes THEN sentTimes ELSE MapSet(sentTimes, e, now)

\* mutant: ok ignored, an absent item observed from the zero time
ReportUnchecked(vec, mt, e) ==
  Observe(vec, mt.latencyObserver,
          Since(IF e \in DOMAIN mt.sentTimes THEN mt.sentTimes[e] ELSE 0))

\* mutant: the latency observed twice
ReportTwice(vec, mt, e) ==
  IF e \in DOMAIN mt.sentTimes
    THEN Observe(Observe(vec, mt.latencyObserver, Since(mt.sentTimes[e])),
                 mt.latencyObserver, Since(mt.sentTimes[e]))
    ELSE vec

\* lines 122-123: the histogram vector after receive looked e up
Report(vec, mt, e) ==
  IF e \in DOMAIN mt.sentTimes
    THEN Observe(vec, mt.latencyObserver, Since(mt.sentTimes[e]))
    ELSE vec

\* mutant: the delete empties the table
ForgetAll(sentTimes, e) ==
  IF e \in DOMAIN sentTimes THEN <<>> ELSE sentTimes

\* mutant: the delete left out
ForgetNothing(sentTimes, e) == sentTimes

\* lines 122, 124: the table after receive looked e up
Forget(sentTimes, e) ==
  IF e \in DOMAIN sentTimes THEN MapDelete(sentTimes, e) ELSE sentTimes

\* the tracker references a caller may hold: nil or a constructed tracker
Refs == {Nil} \cup (1..Len(heap))

\* the queue name a tracker was made for
NameOf(mt) == heap[mt].latencyObserver

\* the event types the counters of a name have counted so far
Traffic(name) == {ty \in EventTypes : sendsDone[<<name, ty>>] > 0}

Init ==
  /\ adds = <<>>
  /\ latency = <<>>
  /\ heap = <<>>
  /\ now = 0
  /\ fault = FALSE
  /\ pc = [th \in Threads |-> "idle"]
  /\ m = [th \in Threads |-> Nil]
  /\ evt = [th \in Threads |-> NoEvent]
  /\ work = [e \in Items |-> "new"]
  /\ calls = 0
  /\ sendLog = [t \in 1..MaxCalls |-> [e \in Items |-> <<>>]]
  /\ sendsDone = [k \in Names \X EventTypes |-> 0]
  /\ settled = {}
  /\ account = [t \in 1..MaxCalls |-> [sends |-> 0, absent |-> 0, reported |-> 0]]
  /\ order = [locks |-> [t \in 1..MaxCalls |-> 0],
              turn |-> [th \in Threads |-> 0],
              stamp |-> [t \in 1..MaxCalls |-> [turn |-> 0, at |-> 0]]]
  /\ last = "none"

goroutines == <<pc, m, evt, work>>

\* ---- the clock ----
Tick ==
  /\ now < MaxClock
  /\ now' = now + 1
  /\ UNCHANGED <<adds, latency, heap, fault, goroutines, calls, sendLog,
                 sendsDone, settled, account, order, last>>

\* ---- newMetrics(name) ----
NewMetrics(name) ==
  /\ calls < MaxCalls
  /\ calls' = calls + 1
  /\ Len(heap) = 0 => name = "q1"
  /\ adds' = InitCounters(adds, name)
  /\ latency' = WithLabelValues(latency, name, <<>>)
  /\ heap' = Append(heap, Metrics(name))
  /\ last' = IF Traffic(name) # {} THEN "newMetrics reuse" ELSE last
  /\ UNCHANGED <<now, fault, goroutines, sendLog, sendsDone, settled, account, order>>

\* ---- mt.send(e), from entry to return ----
Send(mt, e) ==
  /\ calls < MaxCalls
  /\ calls' = calls + 1
  /\ IF IsNil(mt)
       THEN /\ UNCHANGED <<adds, heap, fault, sendLog, sendsDone, settled, account, order>>
            /\ last' = "send nil"
       ELSE IF mt = Nil
         THEN /\ fault' = TRUE
              /\ UNCHANGED <<adds, heap, sendLog, sendsDone, settled, account, order, last>>
         ELSE /\ heap[mt].Mutex = 0
              /\ adds' = Switch(adds, heap[mt], e.type)
              /\ heap' = [heap EXCEPT ![mt].sentTimes = Stamp(@, e.id)]
              /\ sendLog' = [sendLog EXCEPT ![mt][e.id] = Append(@, now)]
              /\ sendsDone' = [sendsDone EXCEPT
                                 ![<<heap[mt].latencyObserver, e.type>>] = @ + 1]
              /\ settled' = settled \ {<<mt, e.id>>}
              /\ account' = [account EXCEPT
                               ![mt].sends = @ + 1,
                               ![mt].absent = IF e.id \in DOMAIN heap[mt].sentTimes
                                                THEN @ ELSE @ + 1]
              /\ order' = [order EXCEPT
                             !.locks[mt] = @ + 1,
                             !.stamp[mt] =
                               IF /\ e.id \notin DOMAIN heap[mt].sentTimes
                                  /\ e.id \in DOMAIN heap'[mt].sentTimes
                                 THEN [turn |-> order.locks[mt] + 1,
                                       at |-> heap'[mt].sentTimes[e.id]]
                                 ELSE @]
              /\ UNCHANGED <<fault, last>>
  /\ UNCHANGED <<latency, now, goroutines>>

\* ---- mt.receive(e), from entry to return ----
\* a receive of an item not sent since its last receive counts against MaxCalls
Receive(mt, e) ==
  /\ IF IsNil(mt)
       THEN /\ calls < MaxCalls
            /\ calls' = calls + 1
            /\ UNCHANGED <<latency, heap, fault, sendLog, settled, account, order>>
            /\ last' = "receive nil"
       ELSE IF mt = Nil
         THEN /\ fault' = TRUE
              /\ UNCHANGED <<latency, heap, calls, sendLog, settled, account, order, last>>
         ELSE /\ heap[mt].Mutex = 0
              /\ sendLog[mt][e] = <<>> => calls < MaxCalls
              /\ calls' = IF sendLog[mt][e] # <<>> THEN calls ELSE calls + 1
              /\ latency' = Report(latency, heap[mt], e)
              /\ heap' = [heap EXCEPT ![mt].sentTimes = Forget(@, e)]
              /\ sendLog' = [sendLog EXCEPT ![mt][e] = <<>>]
              /\ settled' = IF sendLog[mt][e] # <<>>
                              THEN settled \cup {<<mt, e>>} ELSE settled
              /\ account' = [account EXCEPT
                               ![mt].reported = @ + Len(latency'[NameOf(mt)])
                                                  - Len(latency[NameOf(mt)])]
              /\ last' = CASE sendLog[mt][e] # <<>> -> last
                            [] <<mt, e>> \in settled -> "receive settled"
                            [] OTHER -> "receive absent"
              /\ UNCHANGED <<fault, order>>
  /\ UNCHANGED <<adds, now, goroutines, sendsDone>>

Next ==
  \/ Tick
  \/ \E name \in Names : NewMetrics(name)
  \/ \E mt \in Refs, e \in Events : Send(mt, e)
  \/ \E mt \in Refs, e \in Items : Receive(mt, e)

Spec == Init /\ [][Next]_vars

\* ---- goroutines: one step for every statement that touches shared state ----
\* lines 94-96 and 116-118: a call on the nil tracker returns at once,
\* any other call goes on to m.Lock()
Enter(th, mt, e, lock) ==
  /\ pc[th] = "idle"
  /\ IF IsNil(mt)
       THEN UNCHANGED <<pc, m, evt>>
       ELSE /\ pc' = [pc EXCEPT ![th] = lock]
            /\ m' = [m EXCEPT ![th] = mt]
            /\ evt' = [evt EXCEPT ![th] = e]

\* mutant: a lock that does not wait
LockNoWait(th, next) ==
  /\ heap' = [heap EXCEPT ![m[th]].Mutex = th]
  /\ pc' = [pc EXCEPT ![th] = next]

\* m.Lock(): waits while another goroutine holds the mutex
Lock(th, next) ==
  /\ heap[m[th]].Mutex = 0
  /\ heap' = [heap EXCEPT ![m[th]].Mutex = th]
  /\ pc' = [pc EXCEPT ![th] = next]

\* mutant: a return that leaves the mutex locked
ReturnLocked(th) ==
  /\ heap' = heap
  /\ pc' = [pc EXCEPT ![th] = "idle"]
  /\ m' = [m EXCEPT ![th] = Nil]
  /\ evt' = [evt EXCEPT ![th] = NoEvent]

\* the deferred m.Unlock() and the return, which drops the frame
Return(th) ==
  /\ heap' = [heap EXCEPT ![m[th]].Mutex = 0]
  /\ pc' = [pc EXCEPT ![th] = "idle"]
  /\ m' = [m EXCEPT ![th] = Nil]
  /\ evt' = [evt EXCEPT ![th] = NoEvent]

\* line 97
SendLock(th) ==
  /\ pc[th] = "send_97"
  /\ Lock(th, "send_100")
  /\ order' = [order EXCEPT !.locks[m[th]] = @ + 1,
                            !.turn[th] = order.locks[m[th]] + 1]
  /\ UNCHANGED <<adds, latency, now, fault, m, evt, work, calls, sendLog,
                 sendsDone, settled, account, last>>

\* lines 100-107
SendCount(th) ==
  /\ pc[th] = "send_100"
  /\ adds' = Switch(adds, heap[m[th]], evt[th].type)
  /\ pc' = [pc EXCEPT ![th] = "send_109"]
  /\ UNCHANGED <<latency, heap, now, fault, m, evt, work, calls, sendLog,
                 sendsDone, settled, account, order, last>>

\* lines 109-111
SendStamp(th) ==
  /\ pc[th] = "send_109"
  /\ heap' = [heap EXCEPT ![m[th]].sentTimes = Stamp(@, evt[th].id)]
  /\ pc' = [pc EXCEPT ![th] = "send_112"]
  /\ sendLog' = [sendLog EXCEPT ![m[th]][evt[th].id] = Append(@, now)]
  /\ settled' = settled \ {<<m[th], evt[th].id>>}
  /\ account' = [account EXCEPT
                   ![m[th]].sends = @ + 1,
                   ![m[th]].absent = IF evt[th].id \in DOMAIN heap[m[th]].sentTimes
                                       THEN @ ELSE @ + 1]
  /\ order' = [order EXCEPT
                 !.turn[th] = 0,
                 !.stamp[m[th]] =
                   IF /\ evt[th].id \notin DOMAIN heap[m[th]].sentTimes
                      /\ evt[th].id \in DOMAIN heap'[m[th]].sentTimes
                     THEN [turn |-> order.turn[th],
                           at |-> heap'[m[th]].sentTimes[evt[th].id]]
                     ELSE @]
  /\ UNCHANGED <<adds, latency, now, fault, m, evt, work, calls, sendsDone, last>>

\* line 112; the harness then puts the item on the queue
SendReturn(th) ==
  /\ pc[th] = "send_112"
  /\ Return(th)
  /\ sendsDone' = [sendsDone EXCEPT
                     ![<<heap[m[th]].latencyObserver, evt[th].type>>] = @ + 1]
  /\ work' = [work EXCEPT ![evt[th].id] = "queued"]
  /\ UNCHANGED <<adds, latency, now, fault, calls, sendLog, settled, account, order, last>>

\* line 119
ReceiveLock(th) ==
  /\ pc[th] = "recv_119"
  /\ Lock(th, "recv_122")
  /\ UNCHANGED <<adds, latency, now, fault, m, evt, work, calls, sendLog,
                 sendsDone, settled, account, order, last>>

\* lines 122-123
ReceiveObserve(th) ==
  /\ pc[th] = "recv_122"
  /\ latency' = Report(latency, heap[m[th]], evt[th].id)
  /\ pc' = [pc EXCEPT ![th] = IF evt[th].id \in DOMAIN heap[m[th]].sentTimes
                                THEN "recv_124" ELSE "recv_126"]
  /\ sendLog' = [sendLog EXCEPT ![m[th]][evt[th].id] = <<>>]
  /\ settled' = IF sendLog[m[th]][evt[th].id] # <<>>
                  THEN settled \cup {<<m[th], evt[th].id>>} ELSE settled
  /\ account' = [account EXCEPT
                   ![m[th]].reported = @ + Len(latency'[NameOf(m[th])])
                                         - Len(latency[NameOf(m[th])])]
  /\ UNCHANGED <<adds, heap, now, fault, m, evt, work, calls, sendsDone, order, last>>

\* line 124
ReceiveDelete(th) ==
  /\ pc[th] = "recv_124"
  /\ heap' = [heap EXCEPT ![m[th]].sentTimes = Forget(@, evt[th].id)]
  /\ pc' = [pc EXCEPT ![th] = "recv_126"]
  /\ UNCHANGED <<adds, latency, now, fault, m, evt, work, calls, sendLog,
                 sendsDone, settled, account, order, last>>

\* line 126
ReceiveReturn(th) ==
  /\ pc[th] = "recv_126"
  /\ Return(th)
  /\ work' = [work EXCEPT ![evt[th].id] = "done"]
  /\ UNCHANGED <<adds, latency, now, fault, calls, sendLog, sendsDone, settled,
                 account, order, last>>

\* ---- the stress harness: every item is sent once, then received once ----
\* a producer sends an item not sent yet
StressSend(th, e) ==
  /\ work[e.id] = "new"
  /\ Enter(th, 1, e, "send_97")
  /\ work' = [work EXCEPT ![e.id] = "sending"]
  /\ UNCHANGED <<adds, latency, heap, now, fault, calls, sendLog, sendsDone, settled,
                 account, order, last>>

\* a consumer takes an item off the queue and receives it
StressReceive(th, e) ==
  /\ work[e] = "queued"
  /\ Enter(th, 1, [id |-> e, type |-> Unknown], "recv_119")
  /\ work' = [work EXCEPT ![e] = "receiving"]
  /\ UNCHANGED <<adds, latency, heap, now, fault, calls, sendLog, sendsDone, settled,
                 account, order, last>>

\* the state after newMetrics("q1")
InitStress ==
  /\ adds = InitCounters(<<>>, "q1")
  /\ latency = WithLabelValues(<<>>, "q1", <<>>)
  /\ heap = <<Metrics("q1")>>
  /\ now = 0
  /\ fault = FALSE
  /\ pc = [th \in Threads |-> "idle"]
  /\ m = [th \in Threads |-> Nil]
  /\ evt = [th \in Threads |-> NoEvent]
  /\ work = [e \in Items |-> "new"]
  /\ calls = 0
  /\ sendLog = [t \in 1..MaxCalls |-> [e \in Items |-> <<>>]]
  /\ sendsDone = [k \in Names \X EventTypes |-> 0]
  /\ settled = {}
  /\ account = [t \in 1..MaxCalls |-> [sends |-> 0, absent |-> 0, reported |-> 0]]
  /\ order = [locks |-> [t \in 1..MaxCalls |-> 0],
              turn |-> [th \in Threads |-> 0],
              stamp |-> [t \in 1..MaxCalls |-> [turn |-> 0, at |-> 0]]]
  /\ last = "none"

NextStress ==
  \/ Tick
  \/ \E th \in Threads, e \in Events : StressSend(th, e)
  \/ \E th \in Threads, e \in Items : StressReceive(th, e)
  \/ \E th \in Threads : SendLock(th)
  \/ \E th \in Threads : SendCount(th)
  \/ \E th \in Threads : SendStamp(th)
  \/ \E th \in Threads : SendReturn(th)
  \/ \E th \in Threads : ReceiveLock(th)
  \/ \E th \in Threads : ReceiveObserve(th)
  \/ \E th \in Threads : ReceiveDelete(th)
  \/ \E th \in Threads : ReceiveReturn(th)

SpecStress == InitStress /\ [][NextStress]_vars

\* ---- goroutines that make any calls, in any order, on the tracker of q1 ----
\* a goroutine calls mt.send(e)
CallSend(th, mt, e) ==
  /\ calls < MaxStarted
  /\ calls' = calls + 1
  /\ Enter(th, mt, e, "send_97")
  /\ UNCHANGED <<adds, latency, heap, now, fault, work, sendLog, sendsDone, settled,
                 account, order, last>>

\* a goroutine calls mt.receive(e)
CallReceive(th, mt, e) ==
  /\ calls < MaxStarted
  /\ calls' = calls + 1
  /\ Enter(th, mt, [id |-> e, type |-> Unknown], "recv_119")
  /\ UNCHANGED <<adds, latency, heap, now, fault, work, sendLog, sendsDone, settled,
                 account, order, last>>

\* a goroutine inside a call executes its next statement
Step(th) ==
  \/ SendLock(th)
  \/ SendCount(th)
  \/ SendStamp(th)
  \/ SendReturn(th)
  \/ ReceiveLock(th)
  \/ ReceiveObserve(th)
  \/ ReceiveDelete(th)
  \/ ReceiveReturn(th)

\* no statement of send or receive waits for the clock, which stands still here
NextCalls ==
  \/ \E th \in Threads, mt \in Refs, e \in Events : CallSend(th, mt, e)
  \/ \E th \in Threads, mt \in Refs, e \in Items : CallReceive(th, mt, e)
  \/ \E th \in Threads : SendLock(th)
  \/ \E th \in Threads : SendCount(th)
  \/ \E th \in Threads : SendStamp(th)
  \/ \E th \in Threads : SendReturn(th)
  \/ \E th \in Threads : ReceiveLock(th)
  \/ \E th \in Threads : ReceiveObserve(th)
  \/ \E th \in Threads : ReceiveDelete(th)
  \/ \E th \in Threads : ReceiveReturn(th)

\* the scheduler runs every goroutine that stays runnable
Fairness == \A th \in Threads : WF_vars(Step(th))

SpecFair == InitStress /\ [][NextCalls]_vars /\ Fairness

\* ---- the claims ----
Trackers == 1..Len(heap)

\* C1: a send of an item that is not pending, followed by one receive of it,
\* with any calls for other items in between, adds exactly one observation to
\* the histogram of the tracker's name, and its value is the clock at the
\* receive minus the clock at that send; the send itself observes nothing.
C1_LatencyIsElapsed ==
  [][\A mt \in Trackers, e \in Items :
       /\ (Len(sendLog[mt][e]) = 1 /\ sendLog'[mt][e] = <<>>)
            => latency' = [latency EXCEPT
                             ![NameOf(mt)] = Append(@, now - sendLog[mt][e][1])]
       /\ (sendLog[mt][e] = <<>> /\ sendLog'[mt][e] # <<>>)
            => latency' = latency]_vars

\* a positive latency was observed while another item was pending
C1_Witness ==
  \E mt \in Trackers :
    /\ latency[NameOf(mt)] # <<>>
    /\ latency[NameOf(mt)][1] > 0
    /\ \E e \in Items : sendLog[mt][e] # <<>>

\* C2: while an item was sent two or more times with no receive in between,
\* its entry holds the clock of the first of those sends, and the receive
\* that follows observes the time since that first send.
C2_FirstStampKept ==
  [][\A mt \in Trackers, e \in Items :
       /\ Len(sendLog'[mt][e]) >= 2
            => /\ e \in DOMAIN heap'[mt].sentTimes
               /\ heap'[mt].sentTimes[e] = sendLog'[mt][e][1]
       /\ (Len(sendLog[mt][e]) >= 2 /\ sendLog'[mt][e] = <<>>)
            => latency' = [latency EXCEPT
                             ![NameOf(mt)] = Append(@, now - sendLog[mt][e][1])]]_vars

\* an item was sent twice, the second time at a later clock
C2_Witness ==
  \E mt \in Trackers, e \in Items :
    /\ Len(sendLog[mt][e]) >= 2
    /\ sendLog[mt][e][1] < sendLog[mt][e][2]

\* C3: when receive(e) returns, e has no entry; hence a receive of an item
\* whose latest send was already followed by a receive changes neither the
\* histograms, the tables nor the counters.
C3_SecondReceiveNoOp ==
  [][\A mt \in Trackers, e \in Items :
       Receive(mt, e)
         => /\ e \notin DOMAIN heap'[mt].sentTimes
            /\ <<mt, e>> \in settled => UNCHANGED <<adds, latency, heap>>]_vars

\* an item was sent, received, and then received again
C3_Witness == last = "receive settled" /\ settled # {}

\* C4: a receive of an item that has no entry reports nothing, does not
\* fault, and leaves tables, histograms and counters as they were.
C4_ReceiveAbsentNoOp ==
  [][\A mt \in Trackers, e \in Items :
       (e \notin DOMAIN heap[mt].sentTimes /\ Receive(mt, e))
         => (UNCHANGED <<adds, latency, heap>> /\ ~fault')]_vars

\* an item that was never sent was received while another one was pending
C4_Witness ==
  /\ last = "receive absent"
  /\ \E mt \in Trackers : DOMAIN heap[mt].sentTimes # {}

\* C5: when every item is sent once and then received once by goroutines
\* running concurrently on one tracker, every interleaving keeps one entry
\* per item sent and not yet received, one observation per item received,
\* and ends with NumItems observations, an empty table and counters that
\* add up to the number of sends of a recognised type.
Stamped(e) ==
  \/ work[e] = "queued"
  \/ \E th \in Threads :
       /\ evt[th].id = e
       /\ \/ work[e] = "sending" /\ pc[th] = "send_112"
          \/ work[e] = "receiving" /\ pc[th] \in {"recv_119", "recv_122", "recv_124"}

Observed(e) ==
  \/ work[e] = "done"
  \/ \E th \in Threads :
       evt[th].id = e /\ work[e] = "receiving" /\ pc[th] \in {"recv_124", "recv_126"}

AllDone == \A e \in Items : work[e] = "done"

C5_StressKeepsCount ==
  /\ ~fault
  /\ DOMAIN heap[1].sentTimes = {e \in Items : Stamped(e)}
  /\ Len(latency["q1"]) = Cardinality({e \in Items : Observed(e)})
  /\ AllDone =>
       /\ Len(latency["q1"]) = NumItems
       /\ DOMAIN heap[1].sentTimes = {}
       /\ adds[<<"q1", addLabel>>] + adds[<<"q1", updateLabel>>]
            + adds[<<"q1", deleteLabel>>]
          = sendsDone[<<"q1", Added>>] + sendsDone[<<"q1", Modified>>]
            + sendsDone[<<"q1", Deleted>>]

\* the run is over, and one of the sends was of an unknown type
C5_Witness ==
  /\ AllDone
  /\ \A th \in Threads : pc[th] = "idle"
  /\ sendsDone[<<"q1", Unknown>>] = 1

\* C6: a send of an Added (Modified, Deleted) event adds one to the Add
\* (Update, Delete) counter of the tracker's name and leaves every other
\* counter alone, whether or not the item is pending.
LabelOf(ty) ==
  CASE ty = Added -> addLabel
    [] ty = Modified -> updateLabel
    [] ty = Deleted -> deleteLabel

C6_SendCountsItsKind ==
  [][\A mt \in Trackers, e \in Events :
       (e.type # Unknown /\ Send(mt, e))
         => adds' = [adds EXCEPT ![<<NameOf(mt), LabelOf(e.type)>>] = @ + 1]]_vars

\* a pending item was sent again, and both sends were counted as adds
C6_Witness ==
  \E mt \in Trackers, e \in Items :
    /\ Len(sendLog[mt][e]) >= 2
    /\ adds[<<NameOf(mt), addLabel>>] >= 2

\* C7: as long as no send was made on a tracker of a name, the three
\* counters of that name exist and read zero and the tracker's table is empty.
C7_FreshCountersZero ==
  \A mt \in Trackers :
    Traffic(NameOf(mt)) = {}
      => /\ \A l \in {addLabel, updateLabel, deleteLabel} :
              /\ <<NameOf(mt), l>> \in DOMAIN adds
              /\ adds[<<NameOf(mt), l>>] = 0
         /\ DOMAIN heap[mt].sentTimes = {}

\* a tracker without traffic next to a name that has some
C7_Witness ==
  /\ \E mt \in Trackers : Traffic(NameOf(mt)) = {}
  /\ \E name \in Names : Traffic(name) # {}

\* C8: send and receive on the nil tracker change no counter, histogram,
\* table or mutex, and do not fault.
C8_NilIsNoOp ==
  [][\A e \in Events :
       (Send(Nil, e) \/ Receive(Nil, e.id))
         => (UNCHANGED <<adds, latency, heap>> /\ ~fault')]_vars

\* a call on nil was made while a tracker had an item pending
C8_Witness ==
  /\ last \in {"send nil", "receive nil"}
  /\ \E mt \in Trackers : DOMAIN heap[mt].sentTimes # {}

\* C9: no step of a send of an event of unknown type changes a counter or
\* faults; the send runs on to its table step, and it returns with the
\* mutex released.
C9_UnknownKindNotCounted ==
  [][\A th \in Threads :
       (/\ pc[th] \in {"send_97", "send_100", "send_109", "send_112"}
        /\ evt[th].type = Unknown
        /\ pc'[th] # pc[th])
         => /\ adds' = adds
            /\ ~fault'
            /\ pc[th] = "send_100" => pc'[th] = "send_109"
            /\ pc[th] = "send_109" => evt[th].id \in DOMAIN heap'[m[th]].sentTimes
            /\ pc'[th] = "idle" => heap'[m[th]].Mutex = 0]_vars

\* a send of an event of unknown type has returned
C9_Witness == sendsDone[<<"q1", Unknown>>] > 0

\* C10: no step, a construction for a name with traffic included, lowers or
\* removes a counter, and between calls every counter equals the number of
\* sends of its kind that returned on trackers of its name.
CountersMatchSends ==
  \A name \in Names, ty \in {Added, Modified, Deleted} :
    IF <<name, LabelOf(ty)>> \in DOMAIN adds
      THEN adds[<<name, LabelOf(ty)>>] = sendsDone[<<name, ty>>]
      ELSE sendsDone[<<name, ty>>] = 0

C10_CountersMonotonic ==
  [][/\ \A k \in DOMAIN adds : k \in DOMAIN adds' /\ adds'[k] >= adds[k]
     /\ CountersMatchSends']_vars

\* a second tracker was made for a name whose counters had counted
C10_Witness ==
  /\ last = "newMetrics reuse"
  /\ \E k \in DOMAIN adds : adds[k] > 0

\* what a step leaves alone of every queue name other than name: the counters
\* and histograms of those names and the trackers made for them
OtherNamesUnchanged(name) ==
  /\ \A k \in DOMAIN adds : k[1] # name => (k \in DOMAIN adds' /\ adds'[k] = adds[k])
  /\ \A k \in DOMAIN adds' : k[1] # name => k \in DOMAIN adds
  /\ \A n \in DOMAIN latency : n # name => (n \in DOMAIN latency' /\ latency'[n] = latency[n])
  /\ \A n \in DOMAIN latency' : n # name => n \in DOMAIN latency
  /\ \A mt \in Trackers : NameOf(mt) # name => heap'[mt] = heap[mt]

\* C11: a send or a receive on a tracker made for one queue name, and the
\* construction of a tracker for that name, leave the counters, the histogram
\* and the tables of every other queue name as they were.
C11_NamesDoNotConflict ==
  [][/\ \A mt \in Trackers :
          ((\E e \in Events : Send(mt, e)) \/ (\E e \in Items : Receive(mt, e)))
            => OtherNamesUnchanged(NameOf(mt))
     /\ \A name \in Names : NewMetrics(name) => OtherNamesUnchanged(name)]_vars

\* two trackers of different names; one has counted a send and reported a
\* latency, the other has reported none
C11_Witness ==
  \E a \in Trackers, b \in Trackers :
    /\ NameOf(a) # NameOf(b)
    /\ latency[NameOf(a)] # <<>>
    /\ latency[NameOf(b)] = <<>>
    /\ \E l \in {addLabel, updateLabel, deleteLabel} : adds[<<NameOf(a), l>>] > 0

\* the statements between m.Lock() and the deferred m.Unlock()
CriticalSection ==
  {"send_100", "send_109", "send_112", "recv_122", "recv_124", "recv_126"}

\* a send that has counted but not yet looked at the table, or a receive that
\* has observed but not yet deleted
HalfDone == {"send_109", "recv_124"}

\* at most one call per tracker is inside, and it holds that tracker's mutex
MutualExclusion ==
  /\ \A th \in Threads :
       pc[th] \in CriticalSection => heap[m[th]].Mutex = th
  /\ \A th1 \in Threads, th2 \in Threads :
       (/\ th1 # th2
        /\ pc[th1] \in CriticalSection
        /\ pc[th2] \in CriticalSection) => m[th1] # m[th2]
  /\ \A th1 \in Threads, th2 \in Threads :
       (th1 # th2 /\ pc[th1] \in HalfDone /\ m[th2] = m[th1])
         => pc[th2] \in {"send_97", "recv_119"}

\* a step that changes a counter, a histogram or a table is taken by a call
\* that holds the mutex of its tracker before the step and after it
GuardedAccess ==
  (adds' # adds \/ latency' # latency
     \/ \E mt \in Trackers : heap'[mt].sentTimes # heap[mt].sentTimes)
    => \E th \in Threads :
         /\ pc[th] \in CriticalSection
         /\ pc'[th] \in CriticalSection
         /\ pc'[th] # pc[th]
         /\ heap[m[th]].Mutex = th
         /\ heap'[m[th]].Mutex = th
         /\ \A mt \in Trackers : mt # m[th] => heap'[mt] = heap[mt]

\* C12: on one tracker at most one send or receive is between its Lock and
\* its Unlock; every read or write of the counters, the histogram and the
\* table happens with the mutex held, from before the first to after the
\* last; so while a send has counted but not stamped, or a receive has
\* observed but not deleted, every other call on the tracker is still
\* waiting for the mutex.
C12_OneCallInside == []MutualExclusion /\ [][GuardedAccess]_vars

\* a send has counted and not yet stamped while a receive waits for the mutex
C12_Witness ==
  \E th1 \in Threads, th2 \in Threads :
    /\ pc[th1] = "send_109"
    /\ pc[th2] = "recv_119"
    /\ m[th1] = m[th2]
    /\ evt[th1].type = Added

\* a goroutine waiting at m.Lock() waits for a call that is between its Lock
\* and its Unlock, never for a mutex nobody will release
NoOrphanedLock ==
  \A th \in Threads :
    pc[th] \in {"send_97", "recv_119"}
      => \/ heap[m[th]].Mutex = 0
         \/ \E th2 \in Threads :
              /\ heap[m[th]].Mutex = th2
              /\ m[th2] = m[th]
              /\ pc[th2] \in CriticalSection

\* C13: when the scheduler keeps running every goroutine that can take a
\* step, each call that has started returns, with the mutex of its tracker
\* not held by the caller any more, whatever the event type and whether or
\* not the item has an entry; and no caller waits for a mutex that is never
\* released.
C13_EveryCallReturns ==
  /\ \A th \in Threads :
       (pc[th] # "idle")
         ~> (pc[th] = "idle" /\ \A mt \in Trackers : heap[mt].Mutex # th)
  /\ []NoOrphanedLock

\* all calls have returned with the mutex free: a send of an event of unknown
\* type and a receive that found the entry
C13_Witness ==
  /\ \A th \in Threads : pc[th] = "idle"
  /\ heap[1].Mutex = 0
  /\ sendsDone[<<"q1", Unknown>>] = 1
  /\ Len(latency["q1"]) = 1
  /\ DOMAIN heap[1].sentTimes = {}

\* C14: an item gets an entry only by a send of that item and loses it only
\* by a receive of that item, which reports exactly one observation; a send
\* keeps every entry there is as it is and reports nothing; a receive creates
\* no entry, changes no counter, and reports nothing for an item without entry.
C14_TwoStateLifecycle ==
  [][\A mt \in Trackers, e \in Items :
       LET was == e \in DOMAIN heap[mt].sentTimes
           is == e \in DOMAIN heap'[mt].sentTimes
       IN /\ (~was /\ is)
               => \E ty \in EventTypes : Send(mt, [id |-> e, type |-> ty])
          /\ (was /\ ~is)
               => /\ Receive(mt, e)
                  /\ latency' = [latency EXCEPT
                                   ![NameOf(mt)] = Append(@, now - heap[mt].sentTimes[e])]
          /\ (\E ty \in EventTypes : Send(mt, [id |-> e, type |-> ty]))
               => /\ latency' = latency
                  /\ \A e2 \in DOMAIN heap[mt].sentTimes :
                       /\ e2 \in DOMAIN heap'[mt].sentTimes
                       /\ heap'[mt].sentTimes[e2] = heap[mt].sentTimes[e2]
          /\ Receive(mt, e)
               => /\ adds' = adds
                  /\ DOMAIN heap'[mt].sentTimes \subseteq DOMAIN heap[mt].sentTimes
                  /\ was => ~is
                  /\ ~was => latency' = latency]_vars

\* an item has an entry while its tracker has reported one observation and
\* counted two sends
C14_Witness ==
  \E mt \in Trackers, e \in Items :
    /\ e \in DOMAIN heap[mt].sentTimes
    /\ Len(latency[NameOf(mt)]) = 1
    /\ adds[<<NameOf(mt), addLabel>>] + adds[<<NameOf(mt), updateLabel>>]
         + adds[<<NameOf(mt), deleteLabel>>] = 2

\* the observations the trackers 1..n made for a name have reported
RECURSIVE ReportedBy(_, _)
ReportedBy(name, n) ==
  IF n = 0 THEN 0
  ELSE ReportedBy(name, n - 1)
         + (IF NameOf(n) = name THEN account[n].reported ELSE 0)

\* C15: between calls, for every tracker, the observations it has reported
\* plus the entries of its table equal the sends that found no entry for
\* their item; so it has reported no more observations than it had sends,
\* a send that finds an entry adding a send but no observation.  The
\* observations in the histogram of a name are those its trackers reported.
C15_Accounting ==
  /\ \A mt \in Trackers :
       /\ account[mt].reported + Cardinality(DOMAIN heap[mt].sentTimes)
            = account[mt].absent
       /\ account[mt].absent <= account[mt].sends
       /\ account[mt].reported <= account[mt].sends
  /\ \A name \in DOMAIN latency :
       Len(latency[name]) = ReportedBy(name, Len(heap))

\* a tracker had two sends, the second for an item with an entry, and then
\* reported one observation
C15_Witness ==
  \E mt \in Trackers :
    /\ account[mt].sends = 2
    /\ account[mt].absent = 1
    /\ account[mt].reported = 1

\* the three counters of a queue name all read zero
NothingCounted(name) ==
  \A l \in {addLabel, updateLabel, deleteLabel} : adds[<<name, l>>] = 0

\* C16: a send of an event of unknown type for an item without entry changes
\* no counter but gives the item an entry holding the current clock; and on
\* a queue name that had sends of unknown type only, a receive of an item
\* sent since its last receive reports one observation, the time since the
\* first of those sends, while the counters of the name still read zero.
C16_UnknownKindStamped ==
  [][\A mt \in Trackers, e \in Items :
       /\ (e \notin DOMAIN heap[mt].sentTimes
            /\ Send(mt, [id |-> e, type |-> Unknown]))
            => /\ adds' = adds
               /\ e \in DOMAIN heap'[mt].sentTimes
               /\ heap'[mt].sentTimes[e] = now
       /\ (Traffic(NameOf(mt)) = {Unknown}
            /\ sendLog[mt][e] # <<>>
            /\ Receive(mt, e))
            => /\ latency' = [latency EXCEPT
                                ![NameOf(mt)] = Append(@, now - sendLog[mt][e][1])]
               /\ NothingCounted(NameOf(mt))'
               /\ e \notin DOMAIN heap'[mt].sentTimes]_vars

\* a queue name with one positive observation and all its counters at zero
C16_Witness ==
  \E mt \in Trackers :
    /\ Traffic(NameOf(mt)) = {Unknown}
    /\ Len(latency[NameOf(mt)]) = 1
    /\ latency[NameOf(mt)][1] > 0
    /\ NothingCounted(NameOf(mt))

\* no timestamp in a table is later than the clock, no latency is negative
TimesInPast ==
  /\ \A mt \in Trackers : \A e \in DOMAIN heap[mt].sentTimes :
       heap[mt].sentTimes[e] <= now
  /\ \A name \in DOMAIN latency : \A i \in 1..Len(latency[name]) :
       latency[name][i] >= 0

\* a send that stores a timestamp holds the mutex, and its timestamp compares
\* with the one stored last on the tracker as their turns at the lock do
StampsFollowLocks ==
  \A th \in Threads :
    (/\ pc[th] = "send_109"
     /\ pc'[th] = "send_112"
     /\ evt[th].id \notin DOMAIN heap[m[th]].sentTimes)
      => LET prev == order.stamp[m[th]]
         IN /\ heap[m[th]].Mutex = th
            /\ evt[th].id \in DOMAIN heap'[m[th]].sentTimes
            /\ heap'[m[th]].sentTimes[evt[th].id] = now
            /\ (prev.turn # 0 /\ prev.turn < order.turn[th])
                 => prev.at <= heap'[m[th]].sentTimes[evt[th].id]
            /\ (prev.turn # 0 /\ prev.turn > order.turn[th])
                 => heap'[m[th]].sentTimes[evt[th].id] <= prev.at

\* C17: the clock never going back, every timestamp in a table is at most
\* the clock and every latency reported is at least zero; a send reads the
\* clock while it holds the mutex, so of two sends on one tracker the one
\* that locked first stores a timestamp that is no later than the other's.
C17_TimestampsOrdered ==
  /\ []TimesInPast
  /\ [][now' >= now]_vars
  /\ [][StampsFollowLocks]_vars

\* the second send to lock the tracker stored a later timestamp than the
\* first, whose entry is still there, and a positive latency was reported
C17_Witness ==
  /\ order.stamp[1].turn >= 2
  /\ \E e \in DOMAIN heap[1].sentTimes :
       heap[1].sentTimes[e] < order.stamp[1].at
  /\ \E mt \in Trackers : \E e \in DOMAIN heap[mt].sentTimes :
       heap[mt].sentTimes[e] < now
====
